---- MODULE Spec2Model ----
(***************************************************************************)
(* Session orchestration of the voice-agent client: the useLiveKitAgent    *)
(* hook (src/src/hooks/useLiveKitAgent.ts) and the store it writes         *)
(* (src/src/lib/store.ts).                                                 *)
(*                                                                         *)
(* Every connect() call is an asynchronous function: it is modelled as a   *)
(* process whose position (pc) is the await it is suspended at.  The n-th  *)
(* connect() call owns the n-th AudioContext, the n-th Room and the n-th   *)
(* captured track, because each call constructs at most one of each.  The  *)
(* transport (livekit-client Room) and the browser are the environment:    *)
(* they settle the awaited promises and emit the events the hook has       *)
(* registered handlers for.                                                *)
(***************************************************************************)
EXTENDS Integers, Sequences, FiniteSets, TLC

\* ---------------------------------------------------------------- bounds
\* connect() calls made in one behaviour of the lifecycle specification; the
\* specification of concurrent connects makes one more
MaxCalls == 1
\* ToolCallRecords the store holds in the lifecycle specification
MaxData == 1
\* ToolCallRecords the store holds in the tool-message specification
MaxLog == 2
\* last value of the wall clock (Date.now())
MaxTime == 2
\* TranscriptMessages the store holds in the control-channel specification
MaxMsgs == 2
\* frequency bins of an analyser (frequencyBinCount)
MaxBins == 2

\* ---------------------------------------------------------------- values
Undefined == "undefined"
Null == "null"
NoRoom == 0
NoCtx == 0
Calls == 1..(MaxCalls + 1)

\* store.ts 56-66: the store's initial state
StoreDefaults ==
  [sessionId |-> Null, botId |-> Null, agentConnected |-> FALSE,
   audioStatus |-> "waiting", agentState |-> Null,
   inputVolume |-> 0, outputVolume |-> 0,
   messages |-> <<>>, toolCalls |-> <<>>]

VARIABLES
  connectionState,   \* useState<ConnectionState>
  error,             \* useState<string | null>
  roomRef,           \* roomRef.current: NoRoom or the Room of a call
  audioContextRef,   \* audioContextRef.current: NoCtx or the context of a call
  store,             \* the zustand store
  calls,             \* per connect() call: its position and history flags
  rooms,             \* per Room: the SDK's state of it
  ctxs,              \* per AudioContext: "none", "suspended", "running", "closed"
  tracks,            \* per captured MediaStreamTrack: readyState, publication
                     \* and its input sampler (monitorInput)
  now,               \* Date.now()
  remoteTracks,      \* per remote audio track: its subscription, the position of
                     \* its TrackSubscribed handler, its sink element in the DOM,
                     \* its mediaStreamTrack's readyState, its output sampler
  app,               \* the page (App): readinessSignaled, what the readiness
                     \* effect last saw and wrote to window, the events dispatched
  out                \* the operation that produced this state and what it did to
                     \* the outside: the callbacks it invoked, the publishData
                     \* and Room method calls it made, the errors that escaped it

vars == <<connectionState, error, roomRef, audioContextRef, store, calls, rooms,
          ctxs, tracks, now, remoteTracks, app, out>>

\* ---------------------------------------------------------------- store.ts
\* store.ts 69-75
setSessionId(s, v) == [s EXCEPT !.sessionId = v]
setAgentConnected(s, v) == [s EXCEPT !.agentConnected = v]
setAudioStatus(s, v) == [s EXCEPT !.audioStatus = v]
setAgentState(s, v) == [s EXCEPT !.agentState = v]
setInputVolume(s, v) == [s EXCEPT !.inputVolume = v]
setOutputVolume(s, v) == [s EXCEPT !.outputVolume = v]

\* store.ts 54: `${Date.now()}-${random}`; rnd is the random suffix
generateId(t, rnd) == <<t, rnd>>

\* A store that puts the new entry first
addMessage_prepend(s, message, t, rnd) ==
  [s EXCEPT !.messages =
     <<[id |-> generateId(t, rnd), role |-> message.role,
        content |-> message.content, timestamp |-> t]>> \o @]

\* store.ts 77-87
addMessage(s, message, t, rnd) ==
  [s EXCEPT !.messages =
     Append(@, [id |-> generateId(t, rnd), role |-> message.role,
                content |-> message.content, timestamp |-> t])]

\* store.ts 89-98
addToolCall(s, toolCall, t) ==
  [s EXCEPT !.toolCalls =
     Append(@, [id |-> toolCall.id, name |-> toolCall.name,
                status |-> toolCall.status, arguments |-> toolCall.arguments,
                result |-> Undefined, timestamp |-> t])]

Spread_tcWins(tc, updates) ==
  [k \in DOMAIN tc |-> IF k \in DOMAIN updates /\ k # "status" THEN updates[k] ELSE tc[k]]

\* { ...tc, ...updates }: the keys of updates override those of tc
Spread(tc, updates) ==
  [k \in DOMAIN tc |-> IF k \in DOMAIN updates THEN updates[k] ELSE tc[k]]

updateToolCall_upsert(s, id, updates) ==
  IF \E i \in 1..Len(s.toolCalls) : s.toolCalls[i].id = id
  THEN [s EXCEPT !.toolCalls =
          [i \in 1..Len(@) |-> IF @[i].id = id THEN Spread(@[i], updates) ELSE @[i]]]
  ELSE [s EXCEPT !.toolCalls =
          Append(@, [id |-> id, name |-> Undefined, status |-> updates.status,
                     arguments |-> Undefined, result |-> Undefined, timestamp |-> 0])]

\* An update that stamps the record anew (with the epoch)
updateToolCall_restamps(s, id, updates) ==
  [s EXCEPT !.toolCalls =
     [i \in 1..Len(@) |->
        IF @[i].id = id THEN [Spread(@[i], updates) EXCEPT !.timestamp = 0] ELSE @[i]]]

\* store.ts 100-105
updateToolCall(s, id, updates) ==
  [s EXCEPT !.toolCalls =
     [i \in 1..Len(@) |-> IF @[i].id = id THEN Spread(@[i], updates) ELSE @[i]]]

\* store.ts 107-111
clearConversation(s) == [s EXCEPT !.messages = <<>>, !.toolCalls = <<>>]

reset_keepsLog(s) ==
  [StoreDefaults EXCEPT !.messages = s.messages, !.toolCalls = s.toolCalls]

\* store.ts 113-124
reset(s) ==
  [sessionId |-> Null, botId |-> Null, agentConnected |-> FALSE,
   audioStatus |-> "waiting", agentState |-> Null,
   inputVolume |-> 0, outputVolume |-> 0,
   messages |-> <<>>, toolCalls |-> <<>>]

\* ---------------------------------------------------------------- Message Codec
\* A volume field that is absent from a message
VolUndefined == -1

\* A JSON object of the control channel, one field per key handleDataMessage reads
BlankObj ==
  [type |-> Undefined, call_id |-> Undefined, name |-> Undefined,
   arguments |-> Undefined, result |-> Undefined, error |-> Undefined,
   text |-> Undefined, state |-> Undefined, volume |-> VolUndefined,
   message |-> Undefined]

\* The bytes of a payload: wf says what the bytes decode to
\*   "badutf8"  not UTF-8: TextDecoder substitutes U+FFFD, JSON.parse throws
\*   "badjson"  text that is not JSON
\*   "null"     the JSON value null
\*   "scalar"   a JSON number or string
\*   "obj"      a JSON object, obj
Wire(wf, obj) == [wf |-> wf, obj |-> obj]

\* useLiveKitAgent.ts 83-85: decoder.decode then JSON.parse
JSONparse(wire) ==
  CASE wire.wf \in {"badutf8", "badjson"} -> [threw |-> TRUE, kind |-> "none", obj |-> BlankObj]
    [] wire.wf = "null" -> [threw |-> FALSE, kind |-> "null", obj |-> BlankObj]
    [] wire.wf = "scalar" -> [threw |-> FALSE, kind |-> "scalar", obj |-> BlankObj]
    [] OTHER -> [threw |-> FALSE, kind |-> "obj", obj |-> wire.obj]

\* JSON.stringify of an object: a key whose value is undefined is left out,
\* which reads back as undefined; TextEncoder.encode gives the bytes
JSONstringify(data) == Wire("obj", data)

\* A switch whose error case also clears the session and reports twice
Dispatch_errorResets(h, m, t, rnd) ==
  IF m.type = "error"
  THEN [h EXCEPT !.error = m.message, !.store = reset(@),
                 !.onError = Append(Append(@, m.message), m.message)]
  ELSE h

\* useLiveKitAgent.ts 87-123: the switch on message.type, on the hook's state
\* h = [store, error, onError, uncaught]: onError lists the calls of the onError
\* callback, uncaught the errors that leave the handler; t is Date.now(), rnd
\* the id's random suffix
Dispatch(h, m, t, rnd) ==
  CASE m.type = "agent.state" ->
         [h EXCEPT !.store = setAgentState(@, m.state)]
    [] m.type = "agent.volume" ->
         [h EXCEPT !.store = setOutputVolume(@, m.volume)]
    [] m.type = "transcript.user" ->
         [h EXCEPT !.store = addMessage(@, [role |-> "user", content |-> m.text], t, rnd)]
    [] m.type = "transcript.assistant" ->
         [h EXCEPT !.store = addMessage(@, [role |-> "assistant", content |-> m.text], t, rnd)]
    [] m.type = "tool.call" ->
         [h EXCEPT !.store =
            addToolCall(@, [id |-> m.call_id, name |-> m.name, status |-> "pending",
                            arguments |-> m.arguments], t)]
    [] m.type = "tool.executing" ->
         [h EXCEPT !.store = updateToolCall(@, m.call_id, [status |-> "executing"])]
    [] m.type = "tool.completed" ->
         [h EXCEPT !.store =
            updateToolCall(@, m.call_id, [status |-> "completed", result |-> m.result])]
    [] m.type = "tool.error" ->
         [h EXCEPT !.store =
            updateToolCall(@, m.call_id, [status |-> "error", result |-> m.error])]
    [] m.type = "error" ->
         [h EXCEPT !.error = m.message, !.onError = Append(@, m.message)]
    [] OTHER -> h

\* useLiveKitAgent.ts 88-117: the case labels of the switch
RecognizedTypes ==
  {"agent.state", "agent.volume", "transcript.user", "transcript.assistant",
   "tool.call", "tool.executing", "tool.completed", "tool.error", "error"}

handleDataMessage_unknownIsError(h, wire, t, rnd) ==
  LET parsed == JSONparse(wire) IN
  IF parsed.threw \/ parsed.kind = "null" THEN h
  ELSE IF parsed.obj.type \in RecognizedTypes THEN Dispatch(h, parsed.obj, t, rnd)
  ELSE [h EXCEPT !.error = "Unknown message type",
                 !.onError = Append(@, "Unknown message type")]

handleDataMessage_noCatch(h, wire, t, rnd) ==
  LET parsed == JSONparse(wire) IN
  IF parsed.threw \/ parsed.kind = "null"
  THEN [h EXCEPT !.uncaught = {"handleDataMessage"}]
  ELSE Dispatch(h, parsed.obj, t, rnd)

\* useLiveKitAgent.ts 81-127: try { parse; switch } catch { log }
handleDataMessage(h, wire, t, rnd) ==
  LET parsed == JSONparse(wire) IN
  IF parsed.threw THEN h                   \* JSON.parse threw: caught, logged
  ELSE IF parsed.kind = "null" THEN h      \* null.type is a TypeError: caught, logged
  ELSE Dispatch(h, parsed.obj, t, rnd)

\* ---------------------------------------------------------------- errors
\* What a rejected promise carries: an Error with a message, or another value
Errs == {[isError |-> TRUE, message |-> "boom"], [isError |-> FALSE, message |-> Undefined]}

ErrMessage_raw(err) == err.message

\* useLiveKitAgent.ts 524
ErrMessage(err) == IF err.isError THEN err.message ELSE "Connection failed"

\* ---------------------------------------------------------------- the page (App)
\* part_007 111
IsReady(deps) == deps.isConnected /\ deps.agentConnected /\ deps.audioStatus = "playing"

VoiceAgentStatus_audioAttached(deps, t) ==
  [ready |-> IsReady(deps), connected |-> deps.isConnected,
   agentConnected |-> deps.agentConnected,
   audioReady |-> (deps.audioStatus \in {"connecting", "playing"}),
   error |-> deps.error, timestamp |-> t]

\* part_007 114-121: window.voiceAgentStatus
VoiceAgentStatus(deps, t) ==
  [ready |-> IsReady(deps), connected |-> deps.isConnected,
   agentConnected |-> deps.agentConnected,
   audioReady |-> (deps.audioStatus = "playing"),
   error |-> deps.error, timestamp |-> t]

ShouldSignal_whenReady(isReady, signaled) == isReady

\* part_007 127: if (isReady && !readinessSignaled.current)
ShouldSignal(isReady, signaled) == isReady /\ ~signaled

SignaledAfter_followsReady(isReady, signaled) == isReady

\* part_007 127-128: readinessSignaled.current after the effect
SignaledAfter(isReady, signaled) ==
  IF ShouldSignal(isReady, signaled) THEN TRUE ELSE signaled

\* The page after the effect ran on deps at time t; dispatched counts the
\* voiceAgentReady events dispatched on window
AppAfterEffect(a, deps, t) ==
  [readinessSignaled |-> SignaledAfter(IsReady(deps), a.readinessSignaled),
   dispatched |-> a.dispatched + (IF ShouldSignal(IsReady(deps), a.readinessSignaled)
                                  THEN 1 ELSE 0),
   deps |-> deps,
   voiceAgentStatus |-> VoiceAgentStatus(deps, t),
   voiceAgentReady |-> IsReady(deps)]

\* The page once mounted: the effect has run on the hook's initial values
AppMounted(deps) ==
  AppAfterEffect([readinessSignaled |-> FALSE, dispatched |-> 0], deps, 0)

\* ---------------------------------------------------------------- initial state
\* What disconnect() started from (kept for it alone): whether the operation
\* before it was a disconnect() too, the connection state, the Room and context
\* held, whether the store was off its defaults.  For the step that settles a
\* connect() call: whether disconnect() ran while the call was suspended.  For
\* the connect() call: whether an earlier session was connected or connecting
NoPre == [again |-> FALSE, state |-> "disconnected", room |-> NoRoom, ctx |-> NoCtx,
          dirty |-> FALSE, interrupted |-> FALSE, alive |-> FALSE]
\* arg: the operation's input (the payload received or sent, the rejection)
\* listeners: the event types the operation registered a listener for on the
\* document (the hook and the page register none)
NoOut == [op |-> "init", c |-> 0, arg |-> Undefined, pre |-> NoPre, callbacks |-> <<>>,
          published |-> <<>>, roomCalls |-> <<>>, uncaught |-> {}, listeners |-> {}]
Op(name, c) == [NoOut EXCEPT !.op = name, !.c = c]
Callback(name, arg) == [cb |-> name, arg |-> arg]
RoomCall(r, method) == [room |-> r, method |-> method]

\* interrupted: disconnect() ran while the call was suspended at an await
IdleCall == [pc |-> "idle", interrupted |-> FALSE]
NoRoomRec == [state |-> "none", pendingDisc |-> FALSE, everConnected |-> FALSE]
NoTrackRec == [readyState |-> "none", published |-> FALSE, sampler |-> "none"]

\* The remote audio tracks of the session
TrackIds == {1}

\* subscribed: the transport has the track subscribed; pc: where the handler of
\* its TrackSubscribed event is ("play": suspended at await audioElement.play());
\* sink: its audio element is in the DOM; readyState: of its mediaStreamTrack;
\* sampler: monitorOutput is "scheduled" (a timer or animation frame is
\* pending) or "stopped" (it returned without scheduling another tick)
NoRemoteTrack == [subscribed |-> FALSE, pc |-> "none", sink |-> FALSE,
                  readyState |-> "none", sampler |-> "none"]

\* useLiveKitAgent.ts 60-65 and store.ts 56-66
Init ==
  /\ connectionState = "disconnected"
  /\ error = Null
  /\ roomRef = NoRoom
  /\ audioContextRef = NoCtx
  /\ store = StoreDefaults
  /\ calls = [c \in Calls |-> IdleCall]
  /\ rooms = [c \in Calls |-> NoRoomRec]
  /\ ctxs = [c \in Calls |-> "none"]
  /\ tracks = [c \in Calls |-> NoTrackRec]
  /\ now = 0
  /\ remoteTracks = [t \in TrackIds |-> NoRemoteTrack]
  /\ app = AppMounted([isConnected |-> FALSE, agentConnected |-> FALSE,
                       audioStatus |-> "waiting", error |-> Null])
  /\ out = NoOut

\* ---------------------------------------------------------------- classification
\* String.prototype.toLowerCase on one character of an identity
LowerChar(ch) ==
  CASE ch = "A" -> "a" [] ch = "G" -> "g" [] ch = "E" -> "e" [] ch = "N" -> "n"
    [] ch = "T" -> "t" [] ch = "B" -> "b" [] ch = "O" -> "o" [] OTHER -> ch
toLowerCase(str) == [i \in 1..Len(str) |-> LowerChar(str[i])]

\* String.prototype.includes
includes(str, pat) ==
  \E i \in 0..(Len(str) - Len(pat)) : SubSeq(str, i + 1, i + Len(pat)) = pat

\* A classifier that compares the identity as it is written
isVoiceAgent_caseSensitive(participant) ==
  LET identity == IF participant.identity = Undefined THEN <<>> ELSE participant.identity
      kind == IF participant.kind \notin {Undefined, ""} THEN participant.kind
              ELSE participant.metadataKind
  IN \/ participant.isAgent = "true"
     \/ kind = "agent"
     \/ includes(identity, <<"a", "g", "e", "n", "t">>)

\* useLiveKitAgent.ts 189-197.  A participant is [identity, isAgent, kind,
\* metadataKind]; an absent field is Undefined, isAgent is "true", "false" or
\* Undefined
isVoiceAgent(participant) ==
  LET identity == IF participant.identity = Undefined THEN <<>>
                  ELSE toLowerCase(participant.identity)
      kind == IF participant.kind \notin {Undefined, ""} THEN participant.kind
              ELSE participant.metadataKind
  IN \/ participant.isAgent = "true"
     \/ kind = "agent"
     \/ includes(identity, <<"a", "g", "e", "n", "t">>)

\* A roster scan that finds nobody
RosterScan_skipped(s, roster) == s

\* useLiveKitAgent.ts 349-357: the scan of room.remoteParticipants
RosterScan(s, roster) ==
  IF \E participant \in roster : isVoiceAgent(participant)
  THEN setAgentConnected(s, TRUE) ELSE s

\* ---------------------------------------------------------------- connect()
\* The awaits a connect() call can be suspended at
Pending == {"import", "resume", "connect", "gum", "publish", "fallback"}

\* The session of an earlier call is connected (and held) or still connecting,
\* and no disconnect() ran since that call was made
SessionAlive ==
  \E d \in Calls :
    /\ ~calls[d].interrupted
    /\ \/ calls[d].pc \in {"import", "resume", "connect"}
       \/ roomRef = d /\ rooms[d].state = "connected"

\* useLiveKitAgent.ts 132: roomRef.current?.state === 'connected'
AlreadyConnected == roomRef # NoRoom /\ rooms[roomRef].state = "connected"

\* useLiveKitAgent.ts 130-148: the guard, then up to the first await
ConnectCall(c) ==
  /\ calls[c].pc = "idle"
  /\ \A d \in Calls : d < c => calls[d].pc # "idle"
  /\ out' = [Op("connect", c) EXCEPT !.pre.alive = SessionAlive]
  /\ IF AlreadyConnected
     THEN /\ calls' = [calls EXCEPT ![c].pc = "noop"]
          /\ UNCHANGED <<connectionState, error>>
     ELSE /\ calls' = [calls EXCEPT ![c].pc = "import"]
          /\ connectionState' = "connecting"
          /\ error' = Null
  /\ UNCHANGED <<roomRef, audioContextRef, store, rooms, ctxs, tracks, now>>
  /\ UNCHANGED <<remoteTracks, app>>

\* An outer catch that hands the error on: the promise of connect() rejects
Catch_rethrows(op, c, err) ==
  /\ calls' = [calls EXCEPT ![c].pc = "rejected", ![c].interrupted = FALSE]
  /\ out' = [Op(op, c) EXCEPT !.arg = err, !.pre.interrupted = calls[c].interrupted,
                               !.uncaught = {"connect"}]
  /\ UNCHANGED <<connectionState, error>>

\* useLiveKitAgent.ts 520-527: the outer catch
Catch(op, c, err) ==
  /\ calls' = [calls EXCEPT ![c].pc = "failed", ![c].interrupted = FALSE]
  /\ connectionState' = "disconnected"
  /\ error' = ErrMessage(err)
  /\ out' = [Op(op, c) EXCEPT !.arg = err, !.pre.interrupted = calls[c].interrupted,
                               !.callbacks = <<Callback("onError", ErrMessage(err))>>]

\* useLiveKitAgent.ts 169-341: new Room, roomRef.current = room, the room.on
\* registrations, then room.connect is initiated (the Room leaves "disconnected")
\* useLiveKitAgent.ts 202-335: the events connect() registers a handler for with
\* room.on, in the order of the registrations
RoomEvents ==
  <<"Connected", "Disconnected", "Reconnecting", "Reconnected", "DataReceived",
    "ParticipantConnected", "ParticipantDisconnected", "TrackSubscribed",
    "TrackUnsubscribed", "AudioPlaybackStatusChanged">>
RoomOn(r, event) == [room |-> r, method |-> "on", event |-> event]
Registrations(r) == [i \in 1..Len(RoomEvents) |-> RoomOn(r, RoomEvents[i])]

\* A setup that initiates room.connect before it registers the handlers
SetupRoom_connectFirst(op, c) ==
  /\ rooms' = [rooms EXCEPT ![c].state = "connecting"]
  /\ roomRef' = c
  /\ calls' = [calls EXCEPT ![c].pc = "connect"]
  /\ out' = [Op(op, c) EXCEPT
               !.roomCalls = <<RoomCall(c, "connect")>> \o Registrations(c)]
  /\ UNCHANGED <<connectionState, error>>

SetupRoom(op, c) ==
  /\ rooms' = [rooms EXCEPT ![c].state = "connecting"]
  /\ roomRef' = c
  /\ calls' = [calls EXCEPT ![c].pc = "connect"]
  /\ out' = [Op(op, c) EXCEPT
               !.roomCalls = Registrations(c) \o <<RoomCall(c, "connect")>>]
  /\ UNCHANGED <<connectionState, error>>

\* useLiveKitAgent.ts 148-164: the import resolved; new AudioContext, in the state
\* st the autoplay policy gives it; a suspended one is resumed (an await)
ImportOk(c, st) ==
  /\ calls[c].pc = "import"
  /\ ctxs' = [ctxs EXCEPT ![c] = st]
  /\ audioContextRef' = c
  /\ IF st = "suspended"
     THEN /\ calls' = [calls EXCEPT ![c].pc = "resume"]
          /\ out' = Op("importOk", c)
          /\ UNCHANGED <<rooms, roomRef, connectionState, error>>
     ELSE SetupRoom("importOk", c)
  /\ UNCHANGED <<store, tracks, now>>
  /\ UNCHANGED <<remoteTracks, app>>

\* useLiveKitAgent.ts 148: the import rejected
ImportFail(c, err) ==
  /\ calls[c].pc = "import"
  /\ Catch("importFail", c, err)
  /\ UNCHANGED <<roomRef, audioContextRef, store, rooms, ctxs, tracks, now>>
  /\ UNCHANGED <<remoteTracks, app>>

\* useLiveKitAgent.ts 163: resume() resolved.  A context closed meanwhile stays
\* closed; whether its pending resume() resolves or rejects is the browser's choice
ResumeOk(c) ==
  /\ calls[c].pc = "resume"
  /\ ctxs' = [ctxs EXCEPT ![c] = IF @ = "closed" THEN "closed" ELSE "running"]
  /\ SetupRoom("resumeOk", c)
  /\ UNCHANGED <<audioContextRef, store, tracks, now>>
  /\ UNCHANGED <<remoteTracks, app>>

\* useLiveKitAgent.ts 163: resume() rejected
ResumeFail(c, err) ==
  /\ calls[c].pc = "resume"
  /\ Catch("resumeFail", c, err)
  /\ UNCHANGED <<roomRef, audioContextRef, store, rooms, ctxs, tracks, now>>
  /\ UNCHANGED <<remoteTracks, app>>

\* The name the transport reports for the Room of call c: the token names the
\* room, and the page calls connect with the one token it was given
RoomName(c) == "room"

\* useLiveKitAgent.ts 202-207 and 341-372: the transport session is established.
\* The SDK emits Connected (the handler of 202-207 runs) and resolves the promise
\* in the same task, so the continuation runs next: the scan of the roster
\* (the remote participants already in the room), then the cached import and
\* getUserMedia (the next await that depends on the user)
RoomConnectOk(c, roster) ==
  /\ calls[c].pc = "connect"
  /\ rooms[c].state = "connecting"
  /\ rooms' = [rooms EXCEPT ![c].state = "connected", ![c].everConnected = TRUE]
  /\ connectionState' = "connected"
  /\ store' = RosterScan(setSessionId(store, RoomName(c)), roster)
  /\ out' = [Op("roomConnectOk", c) EXCEPT !.arg = roster,
                                            !.callbacks = <<Callback("onConnect", Undefined)>>]
  /\ calls' = [calls EXCEPT ![c].pc = "gum"]
  /\ UNCHANGED <<error, roomRef, audioContextRef, ctxs, tracks, now>>
  /\ UNCHANGED <<remoteTracks, app>>

\* useLiveKitAgent.ts 341: room.connect rejected: the transport failed, or
\* room.disconnect() aborted the attempt.  The SDK may still emit Disconnected
RoomConnectFail(c, err) ==
  /\ calls[c].pc = "connect"
  /\ rooms' = [rooms EXCEPT ![c].state = "disconnected",
                            ![c].pendingDisc = (@ \/ rooms[c].state = "connecting")]
  /\ Catch("roomConnectFail", c, err)
  /\ UNCHANGED <<roomRef, audioContextRef, store, ctxs, tracks, now>>
  /\ UNCHANGED <<remoteTracks, app>>

\* ---------------------------------------------------------------- capture & publish
\* useLiveKitAgent.ts 455-463: the confirmation sent after publishing
AudioPublishedMsg == [BlankObj EXCEPT !.type = "audio.published", !.name = "meeting-audio"]

\* One call of room.localParticipant.publishData on Room r
PubCall(r, data) == [room |-> r, payload |-> JSONstringify(data), reliable |-> TRUE]

\* useLiveKitAgent.ts 369-436: getUserMedia resolved with a live audio track,
\* which is wrapped and handed to publishTrack (an await)
GumOk(c) ==
  /\ calls[c].pc = "gum"
  /\ out' = Op("gumOk", c)
  /\ tracks' = [tracks EXCEPT ![c].readyState = "live"]
  /\ calls' = [calls EXCEPT ![c].pc = "publish"]
  /\ UNCHANGED <<connectionState, error, roomRef, audioContextRef, store, rooms, ctxs, now>>
  /\ UNCHANGED <<remoteTracks, app>>

\* useLiveKitAgent.ts 369-377, 507-513: getUserMedia rejected or gave no audio
\* track; the inner catch falls back to setMicrophoneEnabled(true) (an await)
GumFail(c) ==
  /\ calls[c].pc = "gum"
  /\ out' = [Op("gumFail", c) EXCEPT !.roomCalls = <<RoomCall(c, "setMicrophoneEnabled")>>]
  /\ calls' = [calls EXCEPT ![c].pc = "fallback"]
  /\ UNCHANGED <<connectionState, error, roomRef, audioContextRef, store, rooms, ctxs,
                 tracks, now>>
  /\ UNCHANGED <<remoteTracks, app>>

\* useLiveKitAgent.ts 436-505: publishTrack resolved with a publication: the
\* confirmation is sent and the input sampler is scheduled.  The transport
\* publishes only on a session that is up.  publishData (456) is not awaited:
\* when the transport fails to send (delivered = FALSE), the rejection is nobody's
PublishOk(c, delivered) ==
  /\ calls[c].pc = "publish"
  /\ rooms[c].state \in {"connected", "reconnecting"}
  /\ tracks' = [tracks EXCEPT ![c].published = TRUE, ![c].sampler = "scheduled"]
  /\ out' = [Op("publishOk", c) EXCEPT !.pre.interrupted = calls[c].interrupted,
                                        !.published = <<PubCall(c, AudioPublishedMsg)>>,
                                        !.uncaught = IF delivered THEN {}
                                                     ELSE {"publishData"}]
  /\ calls' = [calls EXCEPT ![c].pc = "done", ![c].interrupted = FALSE]
  /\ UNCHANGED <<connectionState, error, roomRef, audioContextRef, store, rooms, ctxs, now>>
  /\ UNCHANGED <<remoteTracks, app>>

\* useLiveKitAgent.ts 436-445, 507-513: publishTrack rejected, or resolved without
\* a track SID (442-445 throws); the captured track stays as it is
PublishFail(c) ==
  /\ calls[c].pc = "publish"
  /\ out' = [Op("publishFail", c) EXCEPT
               !.roomCalls = <<RoomCall(c, "setMicrophoneEnabled")>>]
  /\ calls' = [calls EXCEPT ![c].pc = "fallback"]
  /\ UNCHANGED <<connectionState, error, roomRef, audioContextRef, store, rooms, ctxs,
                 tracks, now>>
  /\ UNCHANGED <<remoteTracks, app>>

\* A fallback whose rejection reaches the outer catch
FallbackSettled_fatal(c, enabled) ==
  /\ calls[c].pc = "fallback"
  /\ ~enabled
  /\ Catch("fallbackSettled", c, CHOOSE err \in Errs : TRUE)
  /\ UNCHANGED <<roomRef, audioContextRef, store, rooms, ctxs, tracks, now>>
  /\ UNCHANGED <<remoteTracks, app>>

\* useLiveKitAgent.ts 512-517: setMicrophoneEnabled(true) settled: resolved
\* (enabled), or rejected, which the catch of 515-517 only logs
FallbackSettled(c, enabled) ==
  /\ calls[c].pc = "fallback"
  /\ out' = [Op("fallbackSettled", c) EXCEPT !.arg = [ok |-> enabled],
                                              !.pre.interrupted = calls[c].interrupted]
  /\ calls' = [calls EXCEPT ![c].pc = "done", ![c].interrupted = FALSE]
  /\ UNCHANGED <<connectionState, error, roomRef, audioContextRef, store, rooms, ctxs,
                 tracks, now>>
  /\ UNCHANGED <<remoteTracks, app>>

\* ---------------------------------------------------------------- disconnect()
\* room.disconnect() of the SDK: the Room ends and, if a session was up or being
\* set up, a Disconnected event is still to come (the SDK emits it once its own
\* teardown is through)
RoomDisconnect(room) ==
  [room EXCEPT !.state = "disconnected",
               !.pendingDisc = (@ \/ room.state \in {"connecting", "connected", "reconnecting"})]

\* The SDK, ending a Room, stops the local tracks published on it
StopPublished(r) ==
  [tracks EXCEPT ![r].readyState = IF tracks[r].published THEN "ended" ELSE @]

RoomRefAfterDisconnect_kept(r) == r

\* useLiveKitAgent.ts 536: roomRef.current = null
RoomRefAfterDisconnect(r) == NoRoom

\* useLiveKitAgent.ts 533-544
Disconnect ==
  /\ LET op == [Op("disconnect", 0) EXCEPT
                   !.pre = [NoPre EXCEPT !.again = (out.op = "disconnect"),
                                         !.state = connectionState, !.room = roomRef,
                                         !.ctx = audioContextRef,
                                         !.dirty = (store # StoreDefaults)]]
     IN IF roomRef # NoRoom
        THEN /\ rooms' = [rooms EXCEPT ![roomRef] = RoomDisconnect(@)]
             /\ tracks' = StopPublished(roomRef)
             /\ roomRef' = RoomRefAfterDisconnect(roomRef)
             /\ out' = [op EXCEPT !.roomCalls = <<RoomCall(roomRef, "disconnect")>>]
        ELSE /\ out' = op
             /\ UNCHANGED <<rooms, tracks, roomRef>>
  /\ IF audioContextRef # NoCtx
     THEN /\ ctxs' = [ctxs EXCEPT ![audioContextRef] = "closed"]
          /\ audioContextRef' = NoCtx
     ELSE UNCHANGED <<ctxs, audioContextRef>>
  /\ store' = reset(store)
  /\ connectionState' = "disconnected"
  /\ calls' = [c \in Calls |->
                 IF calls[c].pc \in Pending
                 THEN [calls[c] EXCEPT !.interrupted = TRUE] ELSE calls[c]]
  /\ UNCHANGED <<error, now>>
  /\ UNCHANGED <<remoteTracks, app>>

\* ---------------------------------------------------------------- sendData()
CanSend_anyRoom == roomRef # NoRoom

\* useLiveKitAgent.ts 548: roomRef.current?.state === 'connected'
CanSend == roomRef # NoRoom /\ rooms[roomRef].state = "connected"

\* useLiveKitAgent.ts 547-553.  publishData is called once and not awaited: when
\* the transport fails to send (delivered = FALSE), the rejection is nobody's
SendData(data, delivered) ==
  /\ IF CanSend
     THEN out' = [Op("sendData", 0) EXCEPT
                    !.arg = data,
                    !.published = <<PubCall(roomRef, data)>>,
                    !.uncaught = IF delivered THEN {} ELSE {"publishData"}]
     ELSE out' = [Op("sendData", 0) EXCEPT !.arg = data]
  /\ UNCHANGED <<connectionState, error, roomRef, audioContextRef, store, calls, rooms,
                 ctxs, tracks, now>>
  /\ UNCHANGED <<remoteTracks, app>>

\* ---------------------------------------------------------------- transport events
\* useLiveKitAgent.ts 215-218
RoomReconnecting(c) ==
  /\ rooms[c].state = "connected"
  /\ out' = Op("reconnecting", c)
  /\ rooms' = [rooms EXCEPT ![c].state = "reconnecting"]
  /\ connectionState' = "reconnecting"
  /\ UNCHANGED <<error, roomRef, audioContextRef, store, calls, ctxs, tracks, now>>
  /\ UNCHANGED <<remoteTracks, app>>

\* useLiveKitAgent.ts 220-223
RoomReconnected(c) ==
  /\ rooms[c].state = "reconnecting"
  /\ out' = Op("reconnected", c)
  /\ rooms' = [rooms EXCEPT ![c].state = "connected"]
  /\ connectionState' = "connected"
  /\ UNCHANGED <<error, roomRef, audioContextRef, store, calls, ctxs, tracks, now>>
  /\ UNCHANGED <<remoteTracks, app>>

\* useLiveKitAgent.ts 209-213: the handler of Disconnected
\* A handler that reports the end of the session twice
OnDisconnected_twice(op, c) ==
  /\ connectionState' = "disconnected"
  /\ out' = [Op(op, c) EXCEPT !.callbacks = <<Callback("onDisconnect", Undefined),
                                             Callback("onDisconnect", Undefined)>>]

OnDisconnected(op, c) ==
  /\ connectionState' = "disconnected"
  /\ out' = [Op(op, c) EXCEPT !.callbacks = <<Callback("onDisconnect", Undefined)>>]

\* The session is ended by the server or the network: the Room goes to
\* disconnected, stops its published tracks and emits Disconnected
ServerDisconnect(c) ==
  /\ rooms[c].state \in {"connected", "reconnecting"}
  /\ rooms' = [rooms EXCEPT ![c].state = "disconnected"]
  /\ tracks' = StopPublished(c)
  /\ OnDisconnected("serverDisconnect", c)
  /\ UNCHANGED <<error, roomRef, audioContextRef, store, calls, ctxs, now>>
  /\ UNCHANGED <<remoteTracks, app>>

\* The Disconnected event of a Room that room.disconnect() or a failed
\* room.connect ended: its handlers are still registered (nothing calls room.off)
DisconnectedEmitted(c) ==
  /\ rooms[c].pendingDisc
  /\ rooms' = [rooms EXCEPT ![c].pendingDisc = FALSE]
  /\ OnDisconnected("disconnected", c)
  /\ UNCHANGED <<error, roomRef, audioContextRef, store, calls, ctxs, tracks, now>>
  /\ UNCHANGED <<remoteTracks, app>>

\* useLiveKitAgent.ts 225: DataReceived on a Room whose session is up; dt is the
\* time gone by since the clock was last read
DataReceived(c, wire, dt, rnd) ==
  /\ rooms[c].state \in {"connected", "reconnecting"}
  /\ now + dt <= MaxTime
  /\ LET h == handleDataMessage([store |-> store, error |-> error, onError |-> <<>>,
                                 uncaught |-> {}], wire, now + dt, rnd)
     IN /\ store' = h.store
        /\ error' = h.error
        /\ out' = [Op("data", c) EXCEPT !.arg = wire, !.uncaught = h.uncaught,
                     !.callbacks =
                       [i \in 1..Len(h.onError) |-> Callback("onError", h.onError[i])]]
  /\ now' = now + dt
  /\ UNCHANGED <<connectionState, roomRef, audioContextRef, calls, rooms, ctxs, tracks>>
  /\ UNCHANGED <<remoteTracks, app>>

\* ---------------------------------------------------------------- participants
\* useLiveKitAgent.ts 227-237
ParticipantConnected(c, participant) ==
  /\ rooms[c].state \in {"connected", "reconnecting"}
  /\ store' = IF isVoiceAgent(participant) THEN setAgentConnected(store, TRUE) ELSE store
  /\ out' = [Op("participantConnected", c) EXCEPT !.arg = participant]
  /\ UNCHANGED <<connectionState, error, roomRef, audioContextRef, calls, rooms, ctxs,
                 tracks, now, remoteTracks, app>>

\* useLiveKitAgent.ts 239-247
ParticipantDisconnected(c, participant) ==
  /\ rooms[c].state \in {"connected", "reconnecting"}
  /\ store' = IF isVoiceAgent(participant) THEN setAgentConnected(store, FALSE) ELSE store
  /\ out' = [Op("participantDisconnected", c) EXCEPT !.arg = participant]
  /\ UNCHANGED <<connectionState, error, roomRef, audioContextRef, calls, rooms, ctxs,
                 tracks, now, remoteTracks, app>>

\* ---------------------------------------------------------------- remote audio
\* useLiveKitAgent.ts 249-266, 310-313: TrackSubscribed for an audio track, up to
\* the await.  attached = FALSE: track.attach() or appendChild threw
TrackSubscribed(c, t, attached) ==
  /\ rooms[c].state \in {"connected", "reconnecting"}
  /\ ~remoteTracks[t].subscribed
  /\ remoteTracks[t].pc # "play"
  /\ IF attached
     THEN /\ store' = setAudioStatus(store, "connecting")
          /\ remoteTracks' = [remoteTracks EXCEPT ![t] =
                                [subscribed |-> TRUE, pc |-> "play", sink |-> TRUE,
                                 readyState |-> "live", sampler |-> "none"]]
     ELSE /\ store' = setAudioStatus(setAudioStatus(store, "connecting"), "error")
          /\ remoteTracks' = [remoteTracks EXCEPT ![t] =
                                [subscribed |-> TRUE, pc |-> "failed", sink |-> FALSE,
                                 readyState |-> "live", sampler |-> "none"]]
  /\ out' = [Op("trackSubscribed", c) EXCEPT !.arg = [track |-> t, ok |-> attached]]
  /\ UNCHANGED <<connectionState, error, roomRef, audioContextRef, calls, rooms, ctxs,
                 tracks, now, app>>

\* useLiveKitAgent.ts 268-313: play() settled.  Resolved or rejected (the inner
\* catch only logs), the status is set to playing; then the output analyser is
\* set up, and if that throws (monitored = FALSE) the outer catch sets error
PlaySettled(t, played, monitored) ==
  /\ remoteTracks[t].pc = "play"
  /\ store' = IF monitored THEN setAudioStatus(store, "playing")
              ELSE setAudioStatus(setAudioStatus(store, "playing"), "error")
  /\ remoteTracks' = [remoteTracks EXCEPT
                        ![t].pc = IF monitored THEN "done" ELSE "failed",
                        ![t].sampler = IF monitored THEN "scheduled" ELSE @]
  /\ out' = [Op("playSettled", 0) EXCEPT
               !.arg = [track |-> t, ok |-> played, monitored |-> monitored]]
  /\ UNCHANGED <<connectionState, error, roomRef, audioContextRef, calls, rooms, ctxs,
                 tracks, now, app>>

\* A handler that leaves the elements of the track where they are
TrackUnsubscribed_keepsSink(c, t) ==
  /\ remoteTracks[t].subscribed
  /\ remoteTracks' = [remoteTracks EXCEPT ![t].subscribed = FALSE,
                                          ![t].readyState = "ended"]
  /\ out' = [Op("trackUnsubscribed", c) EXCEPT !.arg = [track |-> t]]
  /\ UNCHANGED <<connectionState, error, roomRef, audioContextRef, store, calls, rooms,
                 ctxs, tracks, now, app>>

\* useLiveKitAgent.ts 317-322: track.detach() and the removal of its elements.
\* The SDK emits the event for a track it has stopped or whose mediaStreamTrack
\* ended: the readyState is "ended" by then
TrackUnsubscribed(c, t) ==
  /\ remoteTracks[t].subscribed
  /\ remoteTracks' = [remoteTracks EXCEPT ![t].subscribed = FALSE, ![t].sink = FALSE,
                                          ![t].readyState = "ended"]
  /\ out' = [Op("trackUnsubscribed", c) EXCEPT !.arg = [track |-> t]]
  /\ UNCHANGED <<connectionState, error, roomRef, audioContextRef, store, calls, rooms,
                 ctxs, tracks, now, app>>

\* useLiveKitAgent.ts 325-335: when the Room cannot play audio, startAudio() is
\* called and a rejection of it is caught and logged
AudioPlaybackStatusChanged(c, canPlaybackAudio, started) ==
  /\ rooms[c].state \in {"connected", "reconnecting"}
  /\ out' = [Op("audioPlaybackStatusChanged", c) EXCEPT
               !.arg = [canPlaybackAudio |-> canPlaybackAudio, ok |-> started],
               !.roomCalls = IF canPlaybackAudio THEN <<>>
                             ELSE <<RoomCall(c, "startAudio")>>]
  /\ UNCHANGED <<connectionState, error, roomRef, audioContextRef, store, calls, rooms,
                 ctxs, tracks, now, remoteTracks, app>>

\* ---------------------------------------------------------------- Volume Monitor
\* useLiveKitAgent.ts 296, 486: the reference ceiling of Math.min(1, avg / 128)
Ceiling == 128

\* A volume v of the store is held as the integer v * VolScale, which is exact
\* for every value a sampler computes from MaxBins bins: 1.0 is VolScale
VolScale == Ceiling * MaxBins

\* What getByteFrequencyData can put in a bin (a Uint8Array element)
Bytes == 0..255

\* The magnitudes the samplers are run on: silence, below, at and above the
\* ceiling
Magnitudes == {0, 64, 128, 255}
Frames == [1..MaxBins -> Magnitudes]

\* dataArray.reduce((a, b) => a + b)
RECURSIVE reduce(_)
reduce(dataArray) ==
  IF Len(dataArray) = 1 THEN dataArray[1]
  ELSE reduce(SubSeq(dataArray, 1, Len(dataArray) - 1)) + dataArray[Len(dataArray)]

\* Math.min on store units
MathMin(a, b) == IF a <= b THEN a ELSE b

\* A sampler without the clamp
normalized_unclamped(dataArray) == reduce(dataArray)

\* useLiveKitAgent.ts 294-296, 484-486: avg = reduce / length and
\* normalized = Math.min(1, avg / 128), in store units:
\* (reduce / length / 128) * VolScale = reduce when length = MaxBins
normalized(dataArray) == MathMin(VolScale, reduce(dataArray))

\* A sampler tick that found its track not live: nothing read, nothing written,
\* no further tick
NoTick == [frame |-> <<>>, wrote |-> FALSE, rescheduled |-> FALSE]

\* useLiveKitAgent.ts 478-504: one tick of monitorInput for the track captured
\* by call c; dataArray is what the analyser gives if it is read
monitorInput(c, dataArray) ==
  /\ tracks[c].sampler = "scheduled"
  /\ IF tracks[c].readyState # "live"
     THEN /\ tracks' = [tracks EXCEPT ![c].sampler = "stopped"]
          /\ out' = [Op("monitorInput", c) EXCEPT !.arg = NoTick]
          /\ UNCHANGED store
     ELSE /\ store' = setInputVolume(store, normalized(dataArray))
          /\ out' = [Op("monitorInput", c) EXCEPT
                       !.arg = [frame |-> dataArray, wrote |-> TRUE, rescheduled |-> TRUE]]
          /\ UNCHANGED tracks
  /\ UNCHANGED <<connectionState, error, roomRef, audioContextRef, calls, rooms, ctxs,
                 now, remoteTracks, app>>

\* A sampler without the liveness check
monitorOutput_noCheck(t, dataArray) ==
  /\ remoteTracks[t].sampler = "scheduled"
  /\ store' = setOutputVolume(store, normalized(dataArray))
  /\ out' = [Op("monitorOutput", t) EXCEPT
               !.arg = [frame |-> dataArray, wrote |-> TRUE, rescheduled |-> TRUE]]
  /\ UNCHANGED <<connectionState, error, roomRef, audioContextRef, calls, rooms, ctxs,
                 tracks, now, remoteTracks, app>>

\* useLiveKitAgent.ts 291-308: one tick of monitorOutput for remote track t
monitorOutput(t, dataArray) ==
  /\ remoteTracks[t].sampler = "scheduled"
  /\ IF remoteTracks[t].readyState # "live"
     THEN /\ remoteTracks' = [remoteTracks EXCEPT ![t].sampler = "stopped"]
          /\ out' = [Op("monitorOutput", t) EXCEPT !.arg = NoTick]
          /\ UNCHANGED store
     ELSE /\ store' = setOutputVolume(store, normalized(dataArray))
          /\ out' = [Op("monitorOutput", t) EXCEPT
                       !.arg = [frame |-> dataArray, wrote |-> TRUE, rescheduled |-> TRUE]]
          /\ UNCHANGED remoteTracks
  /\ UNCHANGED <<connectionState, error, roomRef, audioContextRef, calls, rooms, ctxs,
                 tracks, now, app>>

\* The captured track ends by itself: the device is removed or the capture is
\* revoked
LocalTrackEnded(c) ==
  /\ tracks[c].readyState = "live"
  /\ tracks' = [tracks EXCEPT ![c].readyState = "ended"]
  /\ out' = Op("localTrackEnded", c)
  /\ UNCHANGED <<connectionState, error, roomRef, audioContextRef, store, calls, rooms,
                 ctxs, now, remoteTracks, app>>

\* ---------------------------------------------------------------- the page (App)
\* part_007 110-136: the values the readiness effect depends on
Deps ==
  [isConnected |-> connectionState = "connected",
   agentConnected |-> store.agentConnected,
   audioStatus |-> store.audioStatus,
   error |-> error]

\* React has run the effect on the current values of its dependencies
EffectsFlushed == app.deps = Deps

\* part_007 110-136: the readiness effect, run after a render in which one of its
\* dependencies changed
ReadinessEffect ==
  /\ ~EffectsFlushed
  /\ app' = AppAfterEffect(app, Deps, now)
  /\ out' = [Op("effect", 0) EXCEPT
               !.callbacks =
                 IF ShouldSignal(IsReady(Deps), app.readinessSignaled)
                 THEN <<Callback("voiceAgentReady", VoiceAgentStatus(Deps, now))>>
                 ELSE <<>>]
  /\ UNCHANGED <<connectionState, error, roomRef, audioContextRef, store, calls, rooms,
                 ctxs, tracks, now, remoteTracks>>

\* ---------------------------------------------------------------- inputs
ToolIds == {"a", "b"}

ToolCallMsg(id) ==
  Wire("obj", [BlankObj EXCEPT !.type = "tool.call", !.call_id = id,
                               !.name = "send_email", !.arguments = "args"])
ToolExecutingMsg(id) ==
  Wire("obj", [BlankObj EXCEPT !.type = "tool.executing", !.call_id = id])
ToolCompletedMsg(id) ==
  Wire("obj", [BlankObj EXCEPT !.type = "tool.completed", !.call_id = id, !.result = "ok"])
ToolErrorMsg(id) ==
  Wire("obj", [BlankObj EXCEPT !.type = "tool.error", !.call_id = id, !.error = "failed"])

\* The tool-lifecycle messages
ToolWires ==
  UNION {{ToolCallMsg(id), ToolExecutingMsg(id), ToolCompletedMsg(id), ToolErrorMsg(id)} :
           id \in ToolIds}

\* The message of the lifecycle specification: it appends a ToolCallRecord
LifeWires == {ToolCallMsg("a")}

\* Transcript messages
TranscriptUserMsg ==
  Wire("obj", [BlankObj EXCEPT !.type = "transcript.user", !.text = "hi"])
TranscriptAssistantMsg ==
  Wire("obj", [BlankObj EXCEPT !.type = "transcript.assistant", !.text = "hello"])

\* An error report of the agent
ErrorMsg == Wire("obj", [BlankObj EXCEPT !.type = "error", !.message = "agent failed"])

\* Payloads of the control channel besides the tool messages: the transcript,
\* a message of an unknown type, an object without a type, text that is not
\* JSON, the JSON values null and 5, an error report, an agent state
ChannelWires ==
  {TranscriptUserMsg, TranscriptAssistantMsg,
   Wire("obj", [BlankObj EXCEPT !.type = "foo.bar"]),
   Wire("obj", BlankObj),
   Wire("badjson", BlankObj), Wire("null", BlankObj), Wire("scalar", BlankObj),
   ErrorMsg,
   Wire("obj", [BlankObj EXCEPT !.type = "agent.state", !.state = "thinking"])}

\* The random suffixes generateId draws
Rnds == {"k3f9x2a", "p0q8z1m"}

\* Remote participants: the agent (recognised by its identity) and a person
AgentParticipant ==
  [identity |-> <<"A", "g", "e", "n", "t", "-", "7">>, isAgent |-> Undefined,
   kind |-> Undefined, metadataKind |-> Undefined]
HumanParticipant ==
  [identity |-> <<"b", "o", "b">>, isAgent |-> "false", kind |-> "standard",
   metadataKind |-> Undefined]
Participants == {AgentParticipant, HumanParticipant}

\* Participants that differ in the one field that classifies them: the isAgent
\* flag, the kind, the kind in the metadata, with and without a kind of their
\* own; and one with an empty identity and no other field
FlagParticipant ==
  [identity |-> <<"b", "o", "t">>, isAgent |-> "true", kind |-> "standard",
   metadataKind |-> Undefined]
KindParticipant ==
  [identity |-> <<"b", "o", "t">>, isAgent |-> "false", kind |-> "agent",
   metadataKind |-> Undefined]
MetadataParticipant ==
  [identity |-> <<"b", "o", "t">>, isAgent |-> Undefined, kind |-> Undefined,
   metadataKind |-> "agent"]
ShadowedParticipant ==
  [identity |-> <<"b", "o", "t">>, isAgent |-> Undefined, kind |-> "standard",
   metadataKind |-> "agent"]
BlankParticipant ==
  [identity |-> <<>>, isAgent |-> Undefined, kind |-> Undefined,
   metadataKind |-> Undefined]
Classified ==
  Participants \cup {FlagParticipant, KindParticipant, MetadataParticipant,
                     ShadowedParticipant, BlankParticipant}

\* Who is in the room when the transport connects: nobody, one participant, or
\* the agent with a human
Rosters ==
  {{}} \cup {{participant} : participant \in Classified}
       \cup {{AgentParticipant, HumanParticipant}}

\* What sendData is called with
SendPayloads == {[BlankObj EXCEPT !.type = "user.text", !.text = "hi"]}

\* ---------------------------------------------------------------- specifications
\* Every step but the connect() call itself
Run ==
  \/ \E c \in Calls, st \in {"suspended", "running"} : ImportOk(c, st)
  \/ \E c \in Calls, err \in Errs : ImportFail(c, err)
  \/ \E c \in Calls : ResumeOk(c)
  \/ \E c \in Calls, err \in Errs : ResumeFail(c, err)
  \/ \E c \in Calls : RoomConnectOk(c, {})
  \/ \E c \in Calls, err \in Errs : RoomConnectFail(c, err)
  \/ \E c \in Calls : GumOk(c)
  \/ \E c \in Calls : GumFail(c)
  \/ \E c \in Calls, delivered \in BOOLEAN : PublishOk(c, delivered)
  \/ \E c \in Calls : PublishFail(c)
  \/ \E c \in Calls, enabled \in BOOLEAN : FallbackSettled(c, enabled)
  \/ Disconnect
  \/ \E data \in SendPayloads, delivered \in BOOLEAN : SendData(data, delivered)
  \/ \E c \in Calls : RoomReconnecting(c)
  \/ \E c \in Calls : RoomReconnected(c)
  \/ \E c \in Calls : ServerDisconnect(c)
  \/ \E c \in Calls : DisconnectedEmitted(c)
  \/ \E c \in Calls, wire \in LifeWires :
       /\ Len(store.toolCalls) < MaxData
       /\ DataReceived(c, wire, 0, 0)

\* The session lifecycle with MaxCalls connect() calls
Next ==
  \/ \E c \in 1..MaxCalls : ConnectCall(c)
  \/ Run

Spec == Init /\ [][Next]_vars

\* The session lifecycle with one more connect() call: connects that overlap
NextRace ==
  \/ \E c \in Calls : ConnectCall(c)
  \/ Run

SpecRace == Init /\ [][NextRace]_vars

\* The control channel of an established session: the state a first connect()
\* ends in when every step of it succeeds, then tool-lifecycle messages only
InitTools ==
  /\ connectionState = "connected"
  /\ error = Null
  /\ roomRef = 1
  /\ audioContextRef = 1
  /\ store = setSessionId(StoreDefaults, RoomName(1))
  /\ calls = [c \in Calls |-> IF c = 1 THEN [IdleCall EXCEPT !.pc = "done"] ELSE IdleCall]
  /\ rooms = [c \in Calls |->
                IF c = 1 THEN [state |-> "connected", pendingDisc |-> FALSE,
                               everConnected |-> TRUE]
                ELSE NoRoomRec]
  /\ ctxs = [c \in Calls |-> IF c = 1 THEN "running" ELSE "none"]
  /\ tracks = [c \in Calls |->
                 IF c = 1 THEN [readyState |-> "live", published |-> TRUE,
                                sampler |-> "scheduled"]
                 ELSE NoTrackRec]
  /\ now = 0
  /\ remoteTracks = [t \in TrackIds |-> NoRemoteTrack]
  /\ app = AppMounted([isConnected |-> FALSE, agentConnected |-> FALSE,
                       audioStatus |-> "waiting", error |-> Null])
  /\ out = [Op("publishOk", 1) EXCEPT !.published = <<PubCall(1, AudioPublishedMsg)>>]

NextTools ==
  \E wire \in ToolWires, dt \in 0..1 :
    /\ wire.obj.type = "tool.call" => Len(store.toolCalls) < MaxLog
    /\ DataReceived(1, wire, dt, 0)

SpecTools == InitTools /\ [][NextTools]_vars

\* The control channel of an established session: transcript, unknown and
\* malformed payloads, error reports
NextChannel ==
  \E wire \in ChannelWires, dt \in 0..1, rnd \in Rnds :
    /\ wire.obj.type \in {"transcript.user", "transcript.assistant"} =>
         Len(store.messages) < MaxMsgs
    /\ DataReceived(1, wire, dt, rnd)

SpecChannel == InitTools /\ [][NextChannel]_vars

\* What the two logs are fed with: a transcript message, and the creation and
\* the completion of each tool call
LogWires ==
  {TranscriptUserMsg} \cup UNION {{ToolCallMsg(id), ToolCompletedMsg(id)} : id \in ToolIds}

\* The two logs of an established session: transcript messages and the
\* lifecycle of tool calls arrive interleaved as the clock advances
NextLog ==
  \E wire \in LogWires, dt \in 0..1 :
    /\ wire.obj.type = "transcript.user" => Len(store.messages) < MaxMsgs
    /\ wire.obj.type = "tool.call" => Len(store.toolCalls) < MaxLog
    /\ DataReceived(1, wire, dt, "k3f9x2a")

SpecLog == InitTools /\ [][NextLog]_vars

\* One connect() call into a room that others are in, join and leave, on a
\* transport that may reconnect
NextRoster ==
  \/ ConnectCall(1)
  \/ ImportOk(1, "running")
  \/ \E roster \in Rosters : RoomConnectOk(1, roster)
  \/ GumOk(1)
  \/ PublishOk(1, TRUE)
  \/ \E participant \in Classified : ParticipantConnected(1, participant)
  \/ \E participant \in Classified : ParticipantDisconnected(1, participant)
  \/ RoomReconnecting(1)
  \/ RoomReconnected(1)

SpecRoster == Init /\ [][NextRoster]_vars

\* store.ts 107-111: the page calls clearConversation()
ClearConversation ==
  /\ store' = clearConversation(store)
  /\ out' = Op("clearConversation", 0)
  /\ UNCHANGED <<connectionState, error, roomRef, audioContextRef, calls, rooms, ctxs,
                 tracks, now, remoteTracks, app>>

\* The transcript of an established session: transcript and other control
\* messages arrive, the page clears the conversation, the page disconnects
NextTranscript ==
  \/ \E wire \in ChannelWires, dt \in 0..1 :
       /\ wire.obj.type \in {"transcript.user", "transcript.assistant"} =>
            Len(store.messages) < MaxMsgs
       /\ DataReceived(1, wire, dt, "k3f9x2a")
  \/ ClearConversation
  \/ Disconnect

SpecTranscript == InitTools /\ [][NextTranscript]_vars

\* The page with an established session: participants come and go, remote
\* audio is subscribed and played, the transport reconnects or ends, the page
\* disconnects; React runs the readiness effect before the next event is handled
NextApp ==
  \/ ReadinessEffect
  \/ \E participant \in Participants :
       EffectsFlushed /\ ParticipantConnected(1, participant)
  \/ \E participant \in Participants :
       EffectsFlushed /\ ParticipantDisconnected(1, participant)
  \/ \E t \in TrackIds, attached \in BOOLEAN :
       EffectsFlushed /\ TrackSubscribed(1, t, attached)
  \/ \E t \in TrackIds, played \in BOOLEAN, monitored \in BOOLEAN :
       EffectsFlushed /\ PlaySettled(t, played, monitored)
  \/ \E t \in TrackIds : EffectsFlushed /\ TrackUnsubscribed(1, t)
  \/ \E canPlaybackAudio \in BOOLEAN, started \in BOOLEAN :
       EffectsFlushed /\ AudioPlaybackStatusChanged(1, canPlaybackAudio, started)
  \/ EffectsFlushed /\ RoomReconnecting(1)
  \/ EffectsFlushed /\ RoomReconnected(1)
  \/ EffectsFlushed /\ ServerDisconnect(1)
  \/ EffectsFlushed /\ DisconnectedEmitted(1)
  \/ EffectsFlushed /\ Disconnect
  \/ EffectsFlushed /\ DataReceived(1, ErrorMsg, 0, "k3f9x2a")

SpecApp == InitTools /\ [][NextApp]_vars

\* What agent.volume messages carry: a quarter and three times full scale
MsgVolumes == {VolScale \div 4, 3 * VolScale}
AgentVolumeMsg(v) == Wire("obj", [BlankObj EXCEPT !.type = "agent.volume", !.volume = v])

\* The Volume Monitor on an established session: the input sampler runs on the
\* published capture, remote audio is subscribed, played, sampled and
\* unsubscribed, tracks end, agent.volume messages arrive, the page disconnects
NextVolume ==
  \/ \E dataArray \in Frames : monitorInput(1, dataArray)
  \/ \E t \in TrackIds, dataArray \in Frames : monitorOutput(t, dataArray)
  \/ LocalTrackEnded(1)
  \/ \E t \in TrackIds, attached \in BOOLEAN : TrackSubscribed(1, t, attached)
  \/ \E t \in TrackIds, played, monitored \in BOOLEAN : PlaySettled(t, played, monitored)
  \/ \E t \in TrackIds : TrackUnsubscribed(1, t)
  \/ \E v \in MsgVolumes : DataReceived(1, AgentVolumeMsg(v), 0, "k3f9x2a")
  \/ Disconnect

SpecVolume == InitTools /\ [][NextVolume]_vars

\* One connect() call with every asynchronous boundary of it and of the handlers
\* it registers failing or succeeding: the awaits of connect(), the remote track
\* handlers and the playback retry
NextBoundaries ==
  \/ ConnectCall(1)
  \/ \E st \in {"suspended", "running"} : ImportOk(1, st)
  \/ \E err \in Errs : ImportFail(1, err)
  \/ ResumeOk(1)
  \/ \E err \in Errs : ResumeFail(1, err)
  \/ RoomConnectOk(1, {})
  \/ \E err \in Errs : RoomConnectFail(1, err)
  \/ GumOk(1)
  \/ GumFail(1)
  \/ \E delivered \in BOOLEAN : PublishOk(1, delivered)
  \/ PublishFail(1)
  \/ \E enabled \in BOOLEAN : FallbackSettled(1, enabled)
  \/ \E t \in TrackIds, attached \in BOOLEAN : TrackSubscribed(1, t, attached)
  \/ \E t \in TrackIds, played, monitored \in BOOLEAN : PlaySettled(t, played, monitored)
  \/ \E t \in TrackIds : TrackUnsubscribed(1, t)
  \/ \E canPlaybackAudio, started \in BOOLEAN :
       AudioPlaybackStatusChanged(1, canPlaybackAudio, started)
  \/ Disconnect
  \/ DisconnectedEmitted(1)

SpecBoundaries == Init /\ [][NextBoundaries]_vars

\* ---------------------------------------------------------------- properties
\* C1: a connect() call made while the session of an earlier call is connected
\* or still connecting (and no disconnect() ran in between) is a no-op: it
\* starts no second transport setup
C1_SecondConnectIsNoop ==
  (out.op = "connect" /\ out.pre.alive) => calls[out.c].pc = "noop"

\* C2: when disconnect() ran while a connect() call was suspended at one of
\* its awaits, then at the step that settles the call the connection state is
\* disconnected, no Room is held or left with a session, the AudioContext the
\* call created is not open, and the store is at its defaults
C2_InterruptedConnectSettlesClean ==
  (/\ out.op \in {"importFail", "resumeFail", "roomConnectFail", "publishOk",
                  "fallbackSettled"}
   /\ out.pre.interrupted)
  => /\ connectionState = "disconnected"
     /\ roomRef = NoRoom
     /\ rooms[out.c].state \in {"none", "disconnected"}
     /\ audioContextRef = NoCtx
     /\ ctxs[out.c] \in {"none", "closed"}
     /\ store = StoreDefaults

\* C3: right after disconnect(), from any state: room.disconnect() was called
\* on the Room that was held (and on nothing else), the Room reference is
\* cleared, the AudioContext that was held is closed and its reference cleared,
\* the connection state is disconnected, every store field is at its default
C3_DisconnectTearsDown ==
  out.op = "disconnect" =>
    /\ out.roomCalls =
         IF out.pre.room # NoRoom THEN <<RoomCall(out.pre.room, "disconnect")>> ELSE <<>>
    /\ out.pre.room # NoRoom => rooms[out.pre.room].state = "disconnected"
    /\ roomRef = NoRoom
    /\ out.pre.ctx # NoCtx => ctxs[out.pre.ctx] = "closed"
    /\ audioContextRef = NoCtx
    /\ connectionState = "disconnected"
    /\ store.sessionId = Null /\ store.botId = Null
    /\ store.agentConnected = FALSE /\ store.audioStatus = "waiting"
    /\ store.agentState = Null
    /\ store.inputVolume = 0 /\ store.outputVolume = 0
    /\ store.messages = <<>> /\ store.toolCalls = <<>>

\* C3's case: disconnect() of a connected session that holds a Room and an
\* AudioContext, with a store that had left its defaults
C3_Witness ==
  /\ out.op = "disconnect"
  /\ out.pre.state = "connected"
  /\ out.pre.room # NoRoom
  /\ out.pre.ctx # NoCtx
  /\ out.pre.dirty

\* C4: disconnect() with no connect() before it, or right after another
\* disconnect(), starts from disconnected and defaults and leaves them so,
\* calls no method of a Room, and lets no error escape
C4_DisconnectIdempotent ==
  (/\ out.op = "disconnect"
   /\ \/ out.pre.again
      \/ \A c \in Calls : calls[c].pc = "idle")
  => /\ out.pre.state = "disconnected" /\ connectionState = "disconnected"
     /\ ~out.pre.dirty /\ store = StoreDefaults
     /\ out.roomCalls = <<>>
     /\ out.uncaught = {}

\* C4's case: a second disconnect() right after one that ended a Room that
\* had a session
C4_Witness ==
  /\ out.op = "disconnect"
  /\ out.pre.again
  /\ \E c \in Calls : rooms[c].everConnected /\ rooms[c].state = "disconnected"

\* C5: after disconnect() of a session whose connect() has settled, no track
\* captured by getUserMedia is still live
C5_DisconnectStopsCapture ==
  (out.op = "disconnect" /\ \A c \in Calls : calls[c].pc \notin Pending)
  => \A c \in Calls : tracks[c].readyState # "live"

\* C6: sendData changes nothing of the session; when the held Room is connected
\* it calls publishData exactly once, reliable, with the JSON text of its
\* argument (once also when the send fails); in every other situation it sends
\* nothing and no error escapes
C6_SendData ==
  [][out'.op = "sendData" =>
       /\ UNCHANGED <<connectionState, error, roomRef, audioContextRef, store, calls,
                      rooms, ctxs, tracks, now, remoteTracks, app>>
       /\ IF roomRef # NoRoom /\ rooms[roomRef].state = "connected"
          THEN out'.published =
                 <<[room |-> roomRef, payload |-> Wire("obj", out'.arg), reliable |-> TRUE]>>
          ELSE out'.published = <<>> /\ out'.uncaught = {}]_vars

\* C6's case: a sendData on a connected session whose send failed
C6_Witness ==
  /\ out.op = "sendData"
  /\ Len(out.published) = 1
  /\ out.uncaught = {"publishData"}

\* C7: when a step of connect() up to room.connect rejects, the connection state
\* becomes disconnected, error is the rejection's message ('Connection failed'
\* when it is not an Error), onError is called once with it; and the Room of a
\* failed call never had a session and has none
C7_ConnectFailure ==
  /\ out.op \in {"importFail", "resumeFail", "roomConnectFail"} =>
       LET message == IF out.arg.isError THEN out.arg.message ELSE "Connection failed"
       IN /\ connectionState = "disconnected"
          /\ error = message
          /\ out.callbacks = <<[cb |-> "onError", arg |-> message]>>
  /\ \A c \in Calls :
       calls[c].pc = "failed" =>
         ~rooms[c].everConnected /\ rooms[c].state \in {"none", "disconnected"}

\* C7's case: room.connect rejected with something that is not an Error
C7_Witness == out.op = "roomConnectFail" /\ ~out.arg.isError

\* C8: the status of a ToolCallRecord only moves forward along
\* pending -> executing -> {completed | error}, and a completed or failed
\* record keeps its status
C8_StatusForwardOnly ==
  [][LET Rank(st) == CASE st = "pending" -> 0 [] st = "executing" -> 1 [] OTHER -> 2
     IN \A i \in 1..Len(store.toolCalls) :
          /\ Rank(store'.toolCalls[i].status) >= Rank(store.toolCalls[i].status)
          /\ store.toolCalls[i].status \in {"completed", "error"} =>
               store'.toolCalls[i].status = store.toolCalls[i].status]_vars

\* C9: a tool.executing, tool.completed or tool.error message whose call_id no
\* record has leaves the store and the error as they were, and no error escapes
C9_UnknownIdIgnored ==
  [][(/\ out'.op = "data"
      /\ out'.arg.obj.type \in {"tool.executing", "tool.completed", "tool.error"}
      /\ \A i \in 1..Len(store.toolCalls) : store.toolCalls[i].id # out'.arg.obj.call_id)
     => /\ store' = store
        /\ error' = error
        /\ out'.uncaught = {} /\ out'.callbacks = <<>>]_vars

\* C9's case: such a message arrived while the store held records of other calls
C9_Witness ==
  /\ out.op = "data"
  /\ out.arg.obj.type \in {"tool.executing", "tool.completed", "tool.error"}
  /\ store.toolCalls # <<>>
  /\ \A i \in 1..Len(store.toolCalls) : store.toolCalls[i].id # out.arg.obj.call_id

\* C10: no two ToolCallRecords of the store have the same id
C10_UniqueToolCallIds ==
  \A i, j \in 1..Len(store.toolCalls) :
    store.toolCalls[i].id = store.toolCalls[j].id => i = j

\* C11: for a call id no record has, tool.call adds exactly one record for it,
\* pending, with the message's name; tool.executing on that pending record
\* leaves exactly one record for it, executing, name kept; tool.completed on
\* that executing record leaves exactly one, completed, with the message's
\* result and the name kept.  No step touches the records of other ids
C11_ToolLifecycle ==
  [][out'.op = "data" =>
       LET m == out'.arg.obj
           Of(log, id) == {i \in 1..Len(log) : log[i].id = id}
           old == store.toolCalls
           new == store'.toolCalls
           Others(id) == \A i \in 1..Len(old) : old[i].id # id => new[i] = old[i]
       IN /\ (m.type = "tool.call" /\ Of(old, m.call_id) = {}) =>
               /\ Len(new) = Len(old) + 1
               /\ Of(new, m.call_id) = {Len(new)}
               /\ new[Len(new)].status = "pending"
               /\ new[Len(new)].name = m.name
               /\ Others(m.call_id)
          /\ \A i \in 1..Len(old) :
               (/\ m.type = "tool.executing" /\ Of(old, m.call_id) = {i}
                /\ old[i].status = "pending") =>
                 /\ Len(new) = Len(old) /\ Of(new, m.call_id) = {i}
                 /\ new[i].status = "executing" /\ new[i].name = old[i].name
                 /\ Others(m.call_id)
          /\ \A i \in 1..Len(old) :
               (/\ m.type = "tool.completed" /\ Of(old, m.call_id) = {i}
                /\ old[i].status = "executing") =>
                 /\ Len(new) = Len(old) /\ Of(new, m.call_id) = {i}
                 /\ new[i].status = "completed" /\ new[i].result = m.result
                 /\ new[i].name = old[i].name
                 /\ Others(m.call_id)]_vars

\* C11's case: tool.completed has just been handled and the store holds the one
\* record {id: "a", name: "send_email", status: "completed", result: "ok"}
C11_Witness ==
  /\ out.op = "data"
  /\ out.arg = ToolCompletedMsg("a")
  /\ \E i \in 1..Len(store.toolCalls) :
       /\ \A j \in 1..Len(store.toolCalls) : store.toolCalls[j].id = "a" => j = i
       /\ store.toolCalls[i].id = "a"
       /\ store.toolCalls[i].name = "send_email"
       /\ store.toolCalls[i].status = "completed"
       /\ store.toolCalls[i].result = "ok"

\* C12: when a transcript.user message and then a transcript.assistant message
\* are handled one after the other, each appends one entry, in arrival order,
\* with roles user then assistant, and the second entry's timestamp is
\* strictly greater than the first's
C12_TranscriptPairOrdered ==
  [][(/\ out.op = "data" /\ out.arg = TranscriptUserMsg
      /\ out'.op = "data" /\ out'.arg = TranscriptAssistantMsg)
     => LET n == Len(store.messages)
        IN /\ n >= 1
           /\ Len(store'.messages) = n + 1
           /\ \A i \in 1..n : store'.messages[i] = store.messages[i]
           /\ store.messages[n].role = "user" /\ store.messages[n].content = "hi"
           /\ store'.messages[n + 1].role = "assistant"
           /\ store'.messages[n + 1].content = "hello"
           /\ store'.messages[n + 1].timestamp > store.messages[n].timestamp]_vars

\* C13: a control message whose type is none of the recognized ones changes no
\* store field, neither the connection state nor the error, invokes no
\* callback and lets no error escape
C13_UnknownTypeIgnored ==
  [][(/\ out'.op = "data"
      /\ out'.arg.wf = "obj"
      /\ out'.arg.obj.type \notin
           {"agent.state", "agent.volume", "transcript.user", "transcript.assistant",
            "tool.call", "tool.executing", "tool.completed", "tool.error", "error"})
     => /\ store' = store
        /\ connectionState' = connectionState
        /\ error' = error
        /\ out'.callbacks = <<>>
        /\ out'.uncaught = {}]_vars

\* C13's case: {"type": "foo.bar"} handled by a session whose store holds a
\* transcript and whose error is set
C13_Witness ==
  /\ out.op = "data"
  /\ out.arg.wf = "obj" /\ out.arg.obj.type = "foo.bar"
  /\ store.messages # <<>>
  /\ error # Null

\* C14: a payload that is not JSON, or is a JSON value without a type, is
\* dropped: no error escapes the handler, no store field, no connection state
\* and no error changes; and the next transcript message is still received and
\* appended
C14_MalformedDropped ==
  [][LET Malformed(w) == \/ w.wf \in {"badjson", "null", "scalar"}
                         \/ w.wf = "obj" /\ w.obj.type = Undefined
     IN /\ (out'.op = "data" /\ Malformed(out'.arg))
             => /\ store' = store
                /\ connectionState' = connectionState
                /\ error' = error
                /\ out'.callbacks = <<>>
                /\ out'.uncaught = {}
        /\ (out.op = "data" /\ Malformed(out.arg))
             => ENABLED DataReceived(1, TranscriptUserMsg, 0, "k3f9x2a")
        /\ (/\ out.op = "data" /\ Malformed(out.arg)
            /\ out'.op = "data" /\ out'.arg = TranscriptUserMsg)
             => /\ Len(store'.messages) = Len(store.messages) + 1
                /\ store'.messages[Len(store'.messages)].role = "user"
                /\ store'.messages[Len(store'.messages)].content = "hi"]_vars

\* C14's case: text that is not JSON was handled by a session whose store
\* holds a transcript
C14_Witness ==
  /\ out.op = "data"
  /\ out.arg.wf = "badjson"
  /\ store.messages # <<>>

\* C15: the connection state changes only along disconnected -> connecting,
\* connecting -> connected, connecting -> disconnected, connected -> reconnecting,
\* reconnecting -> connected, connected -> disconnected and
\* reconnecting -> disconnected
C15_StateEdges ==
  [][\/ connectionState' = connectionState
     \/ <<connectionState, connectionState'>> \in
          {<<"disconnected", "connecting">>, <<"connecting", "connected">>,
           <<"connecting", "disconnected">>, <<"connected", "reconnecting">>,
           <<"reconnecting", "connected">>, <<"connected", "disconnected">>,
           <<"reconnecting", "disconnected">>}]_vars

\* C16: a voiceAgentReady event is dispatched in a step exactly when that step
\* is the readiness effect running with connected, agentConnected and
\* audioStatus = playing all true and no event dispatched before; so once the
\* effect has seen the three hold, exactly one event has been dispatched, and
\* never a second one
C16_ReadyEventOnce ==
  [][LET ready == /\ connectionState' = "connected"
                  /\ store'.agentConnected
                  /\ store'.audioStatus = "playing"
         fired == app'.dispatched - app.dispatched
     IN /\ fired = IF out'.op = "effect" /\ ready /\ app.dispatched = 0 THEN 1 ELSE 0
        /\ out'.op = "effect" => Len(out'.callbacks) = fired
        /\ out'.op # "effect" => \A i \in 1..Len(out'.callbacks) :
                                   out'.callbacks[i].cb # "voiceAgentReady"
        /\ app'.dispatched <= 1
        /\ (out'.op = "effect" /\ ready) => app'.dispatched = 1]_vars

\* C16's case: the effect ran with the three conditions true again after they
\* had been false, and dispatched nothing, the one event having been dispatched
C16_Witness ==
  /\ out.op = "effect"
  /\ out.callbacks = <<>>
  /\ app.dispatched = 1
  /\ connectionState = "connected" /\ store.agentConnected
  /\ store.audioStatus = "playing"

\* C17: readinessSignaled changes only from false to true
C17_SignaledMonotonic ==
  [][app.readinessSignaled => app'.readinessSignaled]_vars

\* C17's case: readiness was signaled, then disconnect() reset the store and
\* the effect ran on the disconnected page
C17_Witness ==
  /\ app.readinessSignaled
  /\ out.op = "effect"
  /\ connectionState = "disconnected"
  /\ store = StoreDefaults

C19_MediaFailureKeepsSession ==
  [][\A c \in Calls :
       LET Failing == calls[c].pc \in {"gum", "publish"} /\ calls'[c].pc = "fallback"
           Settling == calls[c].pc = "fallback" /\ calls'[c].pc # "fallback"
           Fallbacks == {i \in 1..Len(out'.roomCalls) :
                          out'.roomCalls[i] = RoomCall(c, "setMicrophoneEnabled")}
       IN /\ calls[c].pc \in {"gum", "publish"} =>
               calls'[c].pc \in {"gum", "publish", "fallback", "done"}
          /\ Failing =>
               /\ Cardinality(Fallbacks) = 1
               /\ out'.callbacks = <<>> /\ out'.uncaught = {}
               /\ UNCHANGED <<connectionState, error, store>>
          /\ ~Failing => Fallbacks = {}
          /\ Settling =>
               /\ calls'[c].pc = "done"
               /\ out'.callbacks = <<>> /\ out'.uncaught = {}
               /\ UNCHANGED <<connectionState, error, store>>]_vars

\* publishTrack failed on a connected session and the microphone fallback
\* failed after it: the session is still connected, with no error
C19_Witness ==
  /\ out.op = "fallbackSettled" /\ ~out.arg.ok
  /\ calls[out.c].pc = "done"
  /\ tracks[out.c].readyState = "live"
  /\ connectionState = "connected" /\ error = Null
  /\ store.sessionId = RoomName(out.c)

\* C20: a rejected resume() of the suspended audio context is not fatal: the
\* call goes on to create the Room, registers its handlers and starts
\* room.connect, so that the state can still reach connected
C20_ResumeFailureNonFatal ==
  out.op = "resumeFail" =>
    /\ calls[out.c].pc = "connect"
    /\ roomRef = out.c
    /\ rooms[out.c].state = "connecting"
    /\ out.callbacks = <<>>

\* C21: every volume a sampler writes lies in [0, 1]: min(1, average / 128) is
\* within range for every magnitude 0..255 of the bins, and so is the value in
\* the store after each tick of the input and of the output sampler that
\* wrote one
C21_VolumeInRange ==
  /\ \A b \in Bytes : normalized([i \in 1..MaxBins |-> b]) \in 0..VolScale
  /\ (out.op = "monitorInput" /\ out.arg.wrote) =>
       store.inputVolume = normalized(out.arg.frame) /\ store.inputVolume \in 0..VolScale
  /\ (out.op = "monitorOutput" /\ out.arg.wrote) =>
       store.outputVolume = normalized(out.arg.frame) /\ store.outputVolume \in 0..VolScale

\* The output sampler read bins whose average is above the ceiling and wrote
\* exactly 1, after the input sampler had written a value strictly inside
C21_Witness ==
  /\ out.op = "monitorOutput" /\ out.arg.wrote
  /\ reduce(out.arg.frame) > VolScale
  /\ store.outputVolume = VolScale
  /\ store.inputVolume \in 1..(VolScale - 1)

\* C22: once the source track of a sampler is no longer live, the volume it
\* publishes is exactly 0 within one sampling interval: after the first tick
\* that finds the track not live, inputVolume (for the captured track) and
\* outputVolume (for the remote track) are 0
C22_VolumeZeroAfterTrackEnds ==
  /\ (out.op = "monitorInput" /\ ~out.arg.wrote) => store.inputVolume = 0
  /\ (out.op = "monitorOutput" /\ ~out.arg.wrote) => store.outputVolume = 0

\* C23: the audio context is closed on disconnect: right after disconnect()
\* no audio context created by an earlier connect() call, whether that call
\* connected, failed or was followed by another connect(), is still open
C23_ContextsClosedOnDisconnect ==
  out.op = "disconnect" => \A c \in Calls : ctxs[c] \notin {"suspended", "running"}

\* C24: on TrackSubscribed for an audio track the status is connecting; it is
\* error when attaching fails or when play() is rejected, and it is playing
\* only for a track whose play() was confirmed
C24_PlayingOnlyWhenConfirmed ==
  /\ (out.op = "trackSubscribed" /\ out.arg.ok) => store.audioStatus = "connecting"
  /\ (out.op = "trackSubscribed" /\ ~out.arg.ok) => store.audioStatus = "error"
  /\ (out.op = "playSettled" /\ ~out.arg.ok) => store.audioStatus = "error"
  /\ (out.op = "playSettled" /\ store.audioStatus = "playing") => out.arg.ok

\* C25: when play() of a remote sink is rejected by the autoplay policy, the
\* status is error and a retry is registered for the next click or touch
C25_AutoplayBlockedRetried ==
  (out.op = "playSettled" /\ ~out.arg.ok) =>
    /\ store.audioStatus = "error"
    /\ {"click", "touchstart"} \subseteq out.listeners

C28_AgentVolumeBypassed ==
  [][LET Monitoring == \E t \in TrackIds :
                         /\ remoteTracks[t].sampler = "scheduled"
                         /\ remoteTracks[t].readyState = "live"
     IN (out'.op = "data" /\ out'.arg.obj.type = "agent.volume") =>
          IF Monitoring THEN store'.outputVolume = store.outputVolume
          ELSE store'.outputVolume = out'.arg.obj.volume]_vars

\* C29: a control message of type error sets the recorded error to the text of
\* the message and calls onError once with it; the connection state and every
\* field of the store stay as they were, and so do the Room and the context
C29_ErrorMessageRecorded ==
  [][(out'.op = "data" /\ out'.arg.wf = "obj" /\ out'.arg.obj.type = "error") =>
       /\ error' = out'.arg.obj.message
       /\ out'.callbacks = <<Callback("onError", out'.arg.obj.message)>>
       /\ out'.uncaught = {} /\ out'.published = <<>> /\ out'.roomCalls = <<>>
       /\ UNCHANGED <<connectionState, store, roomRef, audioContextRef, rooms, ctxs,
                      tracks, calls>>]_vars

\* An error report handled on a session whose transcript already has entries
C29_Witness ==
  /\ out.op = "data" /\ out.arg = ErrorMsg
  /\ error = "agent failed"
  /\ connectionState = "connected"
  /\ Len(store.messages) = MaxMsgs

\* C30: the transcript is append-only.  Handling a control message leaves
\* messages as it was or appends exactly one entry at the end; as long as the
\* sequence does not shrink, the entries it had keep their id, role, content,
\* timestamp and position; and it shrinks only in clearConversation() or in
\* the reset() of disconnect(), which empty it
C30_TranscriptAppendOnly ==
  [][LET old == store.messages
         new == store'.messages
         Kept == Len(new) >= Len(old) /\ SubSeq(new, 1, Len(old)) = old
     IN /\ out'.op = "data" => Kept /\ Len(new) <= Len(old) + 1
        /\ Len(new) >= Len(old) => Kept
        /\ Len(new) < Len(old) =>
             out'.op \in {"clearConversation", "disconnect"} /\ new = <<>>]_vars

\* A transcript message appended behind an earlier one of the other role that
\* was not the first event of the session
C30_Witness ==
  /\ out.op = "data" /\ out.arg.wf = "obj"
  /\ out.arg.obj.type \in {"transcript.user", "transcript.assistant"}
  /\ Len(store.messages) = MaxMsgs
  /\ store.messages[Len(store.messages)].content = out.arg.obj.text
  /\ store.messages[1].role # store.messages[MaxMsgs].role
  /\ store.messages[1].timestamp > 0

\* C31: messages and toolCalls are each ordered by creation timestamp, from the
\* first entry to the last never decreasing, before and after every step; and
\* a status update (tool.executing, tool.completed, tool.error) leaves the
\* number of ToolCallRecords, and the id and timestamp at every position, as
\* they were
C31_LogsOrderedByTimestamp ==
  [][LET Ordered(log) ==
           \A i, j \in 1..Len(log) : i <= j => log[i].timestamp <= log[j].timestamp
         old == store.toolCalls
         new == store'.toolCalls
     IN /\ Ordered(store.messages) /\ Ordered(store'.messages)
        /\ Ordered(old) /\ Ordered(new)
        /\ (out'.op = "data"
             /\ out'.arg.obj.type \in {"tool.executing", "tool.completed", "tool.error"}) =>
             /\ Len(new) = Len(old)
             /\ \A i \in 1..Len(old) :
                  new[i].id = old[i].id /\ new[i].timestamp = old[i].timestamp]_vars

\* A tool call created after the clock had advanced was updated, behind an
\* older record, with a transcript entry in the other log
C31_Witness ==
  /\ out.op = "data" /\ out.arg.obj.type = "tool.completed"
  /\ Len(store.toolCalls) = 2
  /\ store.toolCalls[2].id = out.arg.obj.call_id
  /\ store.toolCalls[2].status = "completed"
  /\ store.toolCalls[1].timestamp < store.toolCalls[2].timestamp
  /\ Len(store.messages) > 0

\* C32: agentConnected becomes true when a participant classified as the agent
\* joins, or is in the roster when room.connect has resolved; it becomes false
\* when a participant classified as the agent leaves; a participant that is
\* not the agent, joining or leaving, and a roster without the agent leave it
\* as it was
C32_AgentConnectedFollowsAgent ==
  [][/\ out'.op = "participantConnected" =>
          store'.agentConnected = (isVoiceAgent(out'.arg) \/ store.agentConnected)
     /\ out'.op = "participantDisconnected" =>
          store'.agentConnected = (~isVoiceAgent(out'.arg) /\ store.agentConnected)
     /\ out'.op = "roomConnectOk" =>
          store'.agentConnected =
            ((\E participant \in out'.arg : isVoiceAgent(participant))
             \/ store.agentConnected)]_vars

\* The agent was in the room with a human when the transport connected, and a
\* participant that is not the agent has left since: agentConnected is still set
C32_Witness ==
  /\ out.op = "participantDisconnected" /\ out.arg = HumanParticipant
  /\ store.agentConnected
  /\ calls[1].pc = "gum"

\* C33: classification depends on the participant alone.  Of the participants
\* of the model exactly those are the agent whose isAgent flag is true, whose
\* kind (their own, or else the one in their metadata) is agent, or whose
\* identity contains "agent" in any case; and a participant is treated on
\* leaving as on joining: one that sets agentConnected when joining clears it
\* when leaving, and nobody else touches it
C33_ClassificationPure ==
  /\ \A participant \in Classified :
       isVoiceAgent(participant) <=>
         participant \in {AgentParticipant, FlagParticipant, KindParticipant,
                          MetadataParticipant}
  /\ \A participant \in Classified :
       isVoiceAgent(participant) <=>
         \/ participant.isAgent = "true"
         \/ participant.kind = "agent"
         \/ participant.kind = Undefined /\ participant.metadataKind = "agent"
         \/ participant.identity = <<"A", "g", "e", "n", "t", "-", "7">>
  /\ (out.op = "participantConnected" /\ out.arg \in Classified
        /\ isVoiceAgent(out.arg)) => store.agentConnected
  /\ (out.op = "participantDisconnected" /\ out.arg \in Classified
        /\ isVoiceAgent(out.arg)) => ~store.agentConnected

\* The participant known by its mixed-case identity alone has left the
\* connected session, and agentConnected is cleared
C33_Witness ==
  /\ out.op = "participantDisconnected" /\ out.arg = AgentParticipant
  /\ ~store.agentConnected
  /\ connectionState = "connected"

\* C34: once the readiness effect has run on the current connection, agent,
\* audio and error values, window.voiceAgentStatus mirrors them: connected,
\* agentConnected and error are the current values, audioReady is
\* (audioStatus = playing), ready is their conjunction, and
\* window.voiceAgentReady equals ready
C34_StatusObjectConsistent ==
  EffectsFlushed =>
    /\ app.voiceAgentStatus.connected = (connectionState = "connected")
    /\ app.voiceAgentStatus.agentConnected = store.agentConnected
    /\ app.voiceAgentStatus.error = error
    /\ app.voiceAgentStatus.audioReady = (store.audioStatus = "playing")
    /\ app.voiceAgentStatus.ready =
         (/\ app.voiceAgentStatus.connected
          /\ app.voiceAgentStatus.agentConnected
          /\ app.voiceAgentStatus.audioReady)
    /\ app.voiceAgentReady = app.voiceAgentStatus.ready

\* C34's case: the effect has just run after the audio went from playing back
\* to connecting while connected with the agent present, and the status object
\* reports audioReady and ready false
C34_Witness ==
  /\ out.op = "effect"
  /\ EffectsFlushed
  /\ app.readinessSignaled
  /\ connectionState = "connected"
  /\ store.agentConnected
  /\ store.audioStatus = "connecting"
  /\ ~app.voiceAgentStatus.audioReady
  /\ ~app.voiceAgentReady

\* C35: after disconnect() returned and until the next connect(), no step of
\* the torn-down session writes: while a connect() call that disconnect()
\* interrupted is still running, the connection state stays disconnected and
\* the store stays at its defaults
C35_TornDownSessionSilent ==
  [][(/\ \E c \in Calls : calls[c].interrupted
      /\ connectionState = "disconnected"
      /\ store = StoreDefaults
      /\ out'.op # "connect")
     => /\ connectionState' = "disconnected"
        /\ store' = StoreDefaults]_vars

\* C36: at most one Room created by the hook is connecting, connected or
\* reconnecting at any time
C36_AtMostOneLiveRoom ==
  Cardinality({c \in Calls : rooms[c].state \in {"connecting", "connected", "reconnecting"}}) <= 1

\* C37: a step in which the transport's Disconnected event is handled sets the
\* connection state to disconnected and calls onDisconnect exactly once, and
\* nothing else: the store, the error, the Room reference, the AudioContext
\* reference and the state of every AudioContext are as before
C37_DisconnectedEventOnlyReports ==
  [][out'.op \in {"serverDisconnect", "disconnected"}
     => /\ connectionState' = "disconnected"
        /\ out'.callbacks = <<Callback("onDisconnect", Undefined)>>
        /\ out'.roomCalls = <<>>
        /\ UNCHANGED <<store, error, roomRef, audioContextRef, ctxs>>]_vars

\* C37's case: the server ended a connected session; the state is
\* disconnected while the store still has the session id and the Room and the
\* running AudioContext are still held
C37_Witness ==
  /\ out.op = "serverDisconnect"
  /\ connectionState = "disconnected"
  /\ store.sessionId # StoreDefaults.sessionId
  /\ roomRef = out.c
  /\ audioContextRef # NoCtx
  /\ ctxs[audioContextRef] = "running"

\* C38: when room.connect is initiated on a Room, a handler has been
\* registered on that Room for every transport event the hook handles; and
\* the roster scan and the capture happen only on a Room whose room.connect
\* has resolved: a call is at or past getUserMedia, a captured track exists,
\* or the roster scan has run, only when the call's Room has connected
C38_HandlersBeforeConnect ==
  /\ \A i \in 1..Len(out.roomCalls) :
       out.roomCalls[i].method = "connect" =>
         /\ \A e \in 1..Len(RoomEvents) :
              \E j \in 1..(i - 1) :
                out.roomCalls[j] = RoomOn(out.roomCalls[i].room, RoomEvents[e])
         /\ \A j \in (i + 1)..Len(out.roomCalls) : out.roomCalls[j].method # "on"
  /\ \A c \in Calls :
       (\/ calls[c].pc \in {"gum", "publish", "fallback", "done"}
        \/ tracks[c].readyState # "none")
       => rooms[c].everConnected
  /\ out.op = "roomConnectOk" =>
       /\ rooms[out.c].state = "connected"
       /\ calls[out.c].pc = "gum"
       /\ store.agentConnected = (\E participant \in out.arg : isVoiceAgent(participant))

\* C38's case: room.connect was just initiated on a Room created by the call,
\* after the ten registrations, and the call is suspended with no capture started
C38_Witness ==
  /\ out.op = "importOk"
  /\ Len(out.roomCalls) = Len(RoomEvents) + 1
  /\ out.roomCalls[Len(out.roomCalls)] = RoomCall(1, "connect")
  /\ calls[1].pc = "connect"
  /\ rooms[1].state = "connecting"
  /\ tracks[1].readyState = "none"

\* C39: in every reachable state the store's inputVolume and outputVolume lie
\* in [0, 1], whatever the sampler ticks and the control messages were
C39_StoreVolumesInRange ==
  /\ store.inputVolume \in 0..VolScale
  /\ store.outputVolume \in 0..VolScale

====
